---- MODULE Spec2Model ----
(***************************************************************************)
(* WatchDogAI retrieval-and-recommendation pipeline.                       *)
(*                                                                         *)
(* Conventions.  Floats (confidence, distance, similarity) are integers    *)
(* in hundredths: 0.5 is 50.  A text is a sequence of character codes.     *)
(* A JSON value is a record [t, s, n, l] with t its JSON type, s its       *)
(* string, n its number (hundredths) and l its list.  The outcome of       *)
(* json.loads on a response is carried by the response (field json): the   *)
(* library is outside the repository.                                      *)
(***************************************************************************)
EXTENDS Integers, Sequences, FiniteSets, TLC

VARIABLES
    mode,             \* which object the program built: "LogAnalyzer" or "SlackEnabledAnalyzer"
    slack_notifier,   \* LogAnalyzer.slack_notifier: [present, enabled, min_severity]
    slack_enabled,    \* LogAnalyzer.slack_enabled
    w_notifier,       \* SlackEnabledAnalyzer.slack_notifier
    w_slack_enabled,  \* SlackEnabledAnalyzer.slack_enabled
    collection,       \* the Chroma collection: sequence of stored vectors, in insertion order
    pc,               \* position of the running call
    call,             \* arguments of the running call
    similar_logs,     \* analyze_logs local
    response,         \* analyze_logs local: the generation capability's answer
    recommendation,   \* analyze_logs local: parser.parse(response.content)
    result,           \* what the last finished call returned
    trace,            \* calls made to collaborators during the running call, in order
    lastSearch,       \* outcome of the last search_similar_logs
    stale,            \* self.collection is a handle to a collection that was deleted
    entries,          \* the LogEntry objects parse_logs has created, in creation order
    reembedded,       \* ids handed to embed_documents while already stored
    recent            \* analyze_recent_logs locals: position in common_queries, recommendations

vars == <<mode, slack_notifier, slack_enabled, w_notifier, w_slack_enabled,
          collection, pc, call, similar_logs, response,
          recommendation, result, trace, lastSearch,
          stale, entries, reembedded, recent>>

(*************************** bounds ****************************************)
\* most LogEntry objects parse_logs creates
MaxEntries == 2
MaxLogLen == 5        \* characters of the log data handed to parse_logs
MaxStored == 2        \* stored vectors kept in the collection
LongTextExcess == 100 \* the longest response text is EvidenceLimit + LongTextExcess

(*************************** program constants *****************************)
EvidenceLimit == 200        \* text[:200]
DefaultConfidence == 50     \* data.get("confidence", 0.5)
FallbackConfidence == 10    \* confidence=0.1
MetaLimit == 100            \* value[:100]
InclusionThreshold == 30     \* recommendation.confidence > 0.3
MinConfidence == 50         \* recommendation.confidence < 0.5
analysis_chunk_size == 5    \* AppConfig.analysis_chunk_size

None == [none |-> TRUE]

(*************************** texts *****************************************)
CharAt(i) == 1000 + i
Txt(n) == [i \in 1..n |-> CharAt(i)]
Ellipsis == <<46, 46, 46>>

(*************************** JSON values ***********************************)
Missing == [t |-> "missing", s |-> "", n |-> 0, l |-> <<>>]
Null == [t |-> "null", s |-> "", n |-> 0, l |-> <<>>]
Str(x) == [t |-> "str", s |-> x, n |-> 0, l |-> <<>>]
Num(k) == [t |-> "num", s |-> "", n |-> k, l |-> <<>>]
Bool(b) == [t |-> "bool", s |-> "", n |-> IF b THEN 100 ELSE 0, l |-> <<>>]
List(q) == [t |-> "list", s |-> "", n |-> 0, l |-> q]
Object == [t |-> "object", s |-> "", n |-> 0, l |-> <<>>]

\* float('nan'), which json.loads reads from the literal NaN and float()
\* from the string "nan": a value outside the hundredths in use, for which
\* every ordering comparison is false
NaN == -1000000

\* a < b, a > b and a >= b on floats
PyLt(a, b) == a # NaN /\ b # NaN /\ a < b
PyGt(a, b) == a # NaN /\ b # NaN /\ a > b
PyGe(a, b) == a # NaN /\ b # NaN /\ a >= b

Keys == {"issue", "recommendation", "severity", "confidence", "category",
         "affected_systems", "timeline", "log_evidence"}

\* dict.get(key, default)
Get(data, key, default) == IF data[key].t = "missing" THEN default ELSE data[key]

\* str.lower() on the strings of the model
Lower(s) ==
    CASE s \in {"HIGH", "High"} -> "high"
      [] s \in {"CRITICAL", "Critical"} -> "critical"
      [] s = "Medium" -> "medium"
      [] s = "LOW" -> "low"
      [] s \in {"SECURITY", "Security"} -> "security"
      [] s = "Immediate" -> "immediate"
      [] s = "None" -> "none"
      [] s = "True" -> "true"
      [] s = "False" -> "false"
      [] OTHER -> s

\* str(value): a string is itself; None, True, False print their names; the
\* repr of a number or a container is a string outside every enumeration
PyStr(v) ==
    CASE v.t = "str" -> v.s
      [] v.t = "null" -> "None"
      [] v.t = "bool" -> IF v.n = 100 THEN "True" ELSE "False"
      [] OTHER -> "<repr>"

\* float(value): numbers and booleans convert, a string converts when it
\* spells a number and raises ValueError otherwise, None and containers
\* raise TypeError
NumericStrings == [x \in {"0.7", "0.2", "1", "nan"} |->
                     CASE x = "0.7" -> 70 [] x = "0.2" -> 20 [] x = "1" -> 100
                       [] x = "nan" -> NaN]

Float(v) ==
    CASE v.t \in {"num", "bool"} -> [exc |-> "none", val |-> v.n]
      [] v.t = "str" -> IF v.s \in DOMAIN NumericStrings
                          THEN [exc |-> "none", val |-> NumericStrings[v.s]]
                          ELSE [exc |-> "ValueError", val |-> 0]
      [] OTHER -> [exc |-> "TypeError", val |-> 0]

(*************************** RecommendationParser **************************)
\* mutant: a text of exactly EvidenceLimit characters is cut as well
ParseFallback_OffByOne(text) ==
    [raised |-> FALSE, exc |-> "none",
     rec |-> [issue |-> Str("Failed to parse LLM response"),
              recommendation |-> Str("Review logs manually for potential issues"),
              severity |-> "low",
              confidence |-> FallbackConfidence,
              category |-> "unknown",
              affected_systems |-> <<>>,
              timeline |-> "medium-term",
              log_evidence |-> <<IF Len(text) >= EvidenceLimit
                                   THEN SubSeq(text, 1, EvidenceLimit) \o Ellipsis
                                   ELSE text>>]]

\* the except branch of parse
ParseFallback(text) ==
    [raised |-> FALSE, exc |-> "none",
     rec |-> [issue |-> Str("Failed to parse LLM response"),
              recommendation |-> Str("Review logs manually for potential issues"),
              severity |-> "low",
              confidence |-> FallbackConfidence,
              category |-> "unknown",
              affected_systems |-> <<>>,
              timeline |-> "medium-term",
              log_evidence |-> <<IF Len(text) > EvidenceLimit
                                   THEN SubSeq(text, 1, EvidenceLimit) \o Ellipsis
                                   ELSE text>>]]

\* an exception parse does not catch
ParseRaises(e) == [raised |-> TRUE, exc |-> e, rec |-> None]

\* the SecurityRecommendation(...) construction of the try branch
ParseObject(data, conf) ==
    [raised |-> FALSE, exc |-> "none",
     rec |-> [issue |-> Get(data, "issue", Str("Unknown issue")),
              recommendation |-> Get(data, "recommendation", Str("No recommendation provided")),
              severity |-> Lower(PyStr(Get(data, "severity", Str("medium")))),
              confidence |-> conf,
              category |-> Lower(PyStr(Get(data, "category", Str("unknown")))),
              affected_systems |-> IF data["affected_systems"].t = "list"
                                     THEN data["affected_systems"].l ELSE <<>>,
              timeline |-> Lower(PyStr(Get(data, "timeline", Str("medium-term")))),
              log_evidence |-> IF data["log_evidence"].t = "list"
                                 THEN data["log_evidence"].l ELSE <<>>]]

\* RecommendationParser.parse
Parse(resp) ==
    IF resp.json.kind = "invalid"
      THEN ParseFallback(resp.text)                 \* json.JSONDecodeError
    ELSE IF resp.json.kind # "object"
      THEN ParseRaises("AttributeError")            \* data.get on a list, number, ...
    ELSE LET f == Float(Get(resp.json.obj, "confidence", Num(DefaultConfidence)))
         IN CASE f.exc = "ValueError" -> ParseFallback(resp.text)
              [] f.exc = "TypeError" -> ParseRaises("TypeError")
              [] OTHER -> ParseObject(resp.json.obj, f.val)

(*************************** alert gates *******************************)
\* mutant: the gate looks at the confidence only
ShouldSendSlackAlert_AnySeverity(notifier, rec) ==
    IF ~notifier.present \/ ~notifier.enabled THEN FALSE
    ELSE IF PyLt(rec.confidence, MinConfidence) THEN FALSE
    ELSE TRUE

\* LogAnalyzer._should_send_slack_alert
ShouldSendSlackAlert(notifier, rec) ==
    IF ~notifier.present \/ ~notifier.enabled THEN FALSE
    ELSE IF PyLt(rec.confidence, MinConfidence) THEN FALSE
    ELSE IF rec.severity \in {"high", "critical"} THEN TRUE
    ELSE IF rec.severity = "medium" /\ rec.category = "security" THEN TRUE
    ELSE FALSE

\* SlackEnabledAnalyzer._should_send_slack_alert
WrapperShouldSendSlackAlert(enabled, notifier, rec) ==
    IF ~enabled \/ ~notifier.present \/ ~notifier.enabled THEN FALSE
    ELSE IF PyLt(rec.confidence, MinConfidence) THEN FALSE
    ELSE IF rec.severity \in {"high", "critical"} THEN TRUE
    ELSE IF rec.severity = "medium" /\ rec.category = "security" THEN TRUE
    ELSE FALSE

(*************************** SlackNotifier *********************************)
AlertSeverityValues == {"critical", "high", "medium", "low", "info"}

\* the severity_levels table of _meets_severity_threshold
SeverityLevel(s, default) ==
    CASE s = "critical" -> 4
      [] s = "high" -> 3
      [] s = "medium" -> 2
      [] s = "low" -> 1
      [] s = "info" -> 0
      [] OTHER -> default

\* SlackNotifier._meets_severity_threshold
MeetsSeverityThreshold(min_severity, severity) ==
    SeverityLevel(severity, 0) >= SeverityLevel(min_severity, 2)

\* a JSON number as an element of a list: no text holds a negative code
NumberItem == <<-1>>

\* SlackAlert.to_slack_blocks raises: ", ".join(self.affected_systems) takes
\* strings only, and len(log) of the first two log_evidence entries fails for
\* a number
ToSlackBlocksRaises(alert) ==
    \/ \E i \in DOMAIN alert.affected_systems : alert.affected_systems[i] = NumberItem
    \/ \E i \in DOMAIN alert.log_evidence : i <= 2 /\ alert.log_evidence[i] = NumberItem

\* SlackNotifier._send_alert; http is what requests.post does: "200", "500"
\* or "raise". An exception of to_slack_blocks or of requests.post is caught
\* and answered with False.
SendAlert(notifier, alert, http) ==
    IF ~notifier.enabled THEN [posted |-> FALSE, ok |-> FALSE, raised |-> FALSE]
    ELSE IF ~MeetsSeverityThreshold(notifier.min_severity, alert.severity)
      THEN [posted |-> FALSE, ok |-> FALSE, raised |-> FALSE]
    ELSE IF ToSlackBlocksRaises(alert)
      THEN [posted |-> FALSE, ok |-> FALSE, raised |-> FALSE]
    ELSE [posted |-> TRUE, ok |-> (http = "200"), raised |-> FALSE]

\* the SlackAlert(...) construction of send_security_alert: the fields that
\* _send_alert reads
SlackAlert(rec) ==
    [severity |-> Lower(rec.severity),
     affected_systems |-> rec.affected_systems,
     log_evidence |-> rec.log_evidence]

\* the test_alert of send_test_message
TestAlert ==
    [severity |-> "info", affected_systems |-> <<Txt(11)>>, log_evidence |-> <<Txt(4)>>]

\* SlackNotifier.send_test_message
SendTestMessage(notifier, http) ==
    IF ~notifier.enabled THEN [posted |-> FALSE, ok |-> FALSE, raised |-> FALSE]
    ELSE SendAlert(notifier, TestAlert, http)

\* SlackNotifier.send_security_alert
SendSecurityAlert(notifier, rec, http) ==
    IF ~notifier.enabled THEN [posted |-> FALSE, ok |-> FALSE, raised |-> FALSE]
    ELSE IF Lower(rec.severity) \notin AlertSeverityValues
      THEN [posted |-> FALSE, ok |-> FALSE, raised |-> TRUE]   \* AlertSeverity(...): ValueError
    ELSE SendAlert(notifier, SlackAlert(rec), http)

\* SlackNotifier.__init__: enabled = bool(webhook_url)
SlackNotifier(webhook, min_severity) ==
    [present |-> TRUE, enabled |-> webhook, min_severity |-> min_severity]

NoNotifier == [present |-> FALSE, enabled |-> FALSE, min_severity |-> "medium"]

(*************************** LogEmbeddings *********************************)
Abs(x) == IF x < 0 THEN -x ELSE x

\* the embedding capability: a text's vector is its topic
EmbedVec(text) == text

\* the distance the store reports between two vectors (hundredths); the
\* default metric of the store is unbounded above
Distance(a, b) ==
    CASE Abs(a - b) = 0 -> 0
      [] Abs(a - b) = 1 -> 40
      [] OTHER -> 130

\* position of the nearest vector among the positions idx of coll, the
\* earliest inserted winning a tie
Nearest(coll, q, idx) ==
    CHOOSE i \in idx :
        \A j \in idx :
            \/ Distance(q, coll[i].embedding) < Distance(q, coll[j].embedding)
            \/ Distance(q, coll[i].embedding) = Distance(q, coll[j].embedding) /\ i <= j

RECURSIVE NearestK(_, _, _, _)
\* collection.query: the k nearest stored vectors by ascending distance
NearestK(coll, q, k, idx) ==
    IF k <= 0 \/ idx = {} THEN <<>>
    ELSE LET i == Nearest(coll, q, idx)
         IN <<[document |-> coll[i].document,
               metadata |-> coll[i].metadata,
               distance |-> Distance(q, coll[i].embedding)]>>
            \o NearestK(coll, q, k - 1, idx \ {i})

\* the "Format results" loop of search_similar_logs
FormatResults(rows) ==
    [i \in 1..Len(rows) |->
        [document |-> rows[i].document,
         metadata |-> rows[i].metadata,
         similarity_score |-> 100 - rows[i].distance]]

\* mutant: the exceptions of the collaborators are not caught
SearchSimilarLogs_Uncaught(coll, query, n_results, outcome) ==
    IF outcome = "embed_raise"
      THEN [hits |-> <<>>, raised |-> TRUE, failed |-> TRUE, store_invoked |-> FALSE]
    ELSE IF outcome = "store_raise" \/ n_results <= 0
      THEN [hits |-> <<>>, raised |-> TRUE, failed |-> TRUE, store_invoked |-> TRUE]
    ELSE [hits |-> FormatResults(NearestK(coll, EmbedVec(query), n_results, DOMAIN coll)),
          raised |-> FALSE, failed |-> FALSE, store_invoked |-> TRUE]

\* LogEmbeddings.search_similar_logs; outcome is what the collaborators do:
\* "ok", "embed_raise" (embed_query fails) or "store_raise" (collection.query
\* fails).  The store rejects n_results <= 0 with an exception.  Every
\* exception is caught and turned into [].
SearchSimilarLogs(coll, query, n_results, outcome) ==
    IF outcome = "embed_raise"
      THEN [hits |-> <<>>, raised |-> FALSE, failed |-> TRUE, store_invoked |-> FALSE]
    ELSE IF outcome = "store_raise" \/ n_results <= 0
      THEN [hits |-> <<>>, raised |-> FALSE, failed |-> TRUE, store_invoked |-> TRUE]
    ELSE [hits |-> FormatResults(NearestK(coll, EmbedVec(query), n_results, DOMAIN coll)),
          raised |-> FALSE, failed |-> FALSE, store_invoked |-> TRUE]

\* a LogEntry as the store sees it: its uuid4 id, its searchable_text (the
\* topic of the text) and its source
LogEntryOf(id, text, source) == [id |-> id, searchable_text |-> text, source |-> source]

\* what embed_logs hands to collection.add for one entry
StoredVector(e) ==
    [id |-> e.id, document |-> e.searchable_text,
     embedding |-> EmbedVec(e.searchable_text),
     metadata |-> [source |-> e.source]]

\* the entry's id is stored: a query wide enough returns its document
Visible(coll, e) == \E i \in DOMAIN coll : coll[i].id = e.id

\* mutant: collection.add replaces what the collection holds
CollectionAdd_Overwrite(coll, vectors) ==
    IF \E i, j \in DOMAIN vectors : i # j /\ vectors[i].id = vectors[j].id
      THEN [raised |-> TRUE, coll |-> coll]
      ELSE [raised |-> FALSE, coll |-> vectors]

\* collection.add: a batch that names an id twice is rejected with an
\* exception; an id that is already stored is ignored, the stored vector
\* staying as it is
CollectionAdd(coll, vectors) ==
    IF \E i, j \in DOMAIN vectors : i # j /\ vectors[i].id = vectors[j].id
      THEN [raised |-> TRUE, coll |-> coll]
      ELSE [raised |-> FALSE,
            coll |-> coll \o SelectSeq(vectors, LAMBDA v : ~Visible(coll, v))]

\* mutant: a failing collection.add has stored the first vector of the batch
EmbedLogsResult_Partial(coll, log_entries, outcome) ==
    IF log_entries = <<>>
      THEN [ok |-> FALSE, coll |-> coll, embedded |-> FALSE]
    ELSE IF outcome = "embed_raise"
      THEN [ok |-> FALSE, coll |-> coll, embedded |-> FALSE]
    ELSE IF outcome \in {"count_mismatch", "store_raise"}
      THEN [ok |-> FALSE,
            coll |-> CollectionAdd(coll, <<StoredVector(log_entries[1])>>).coll,
            embedded |-> TRUE]
    ELSE LET added == CollectionAdd(coll, [i \in DOMAIN log_entries |->
                                              StoredVector(log_entries[i])])
         IN [ok |-> ~added.raised, coll |-> added.coll, embedded |-> TRUE]

\* LogEmbeddings.embed_logs; outcome is what the collaborators do: "ok",
\* "embed_raise" (embed_documents fails), "count_mismatch" (embed_documents
\* answers with another number of vectors, which collection.add rejects) or
\* "store_raise" (collection.add fails).  embedded says whether
\* embed_documents answered for the batch.
EmbedLogsResult(coll, log_entries, outcome) ==
    IF log_entries = <<>>
      THEN [ok |-> FALSE, coll |-> coll, embedded |-> FALSE]
    ELSE IF outcome = "embed_raise"
      THEN [ok |-> FALSE, coll |-> coll, embedded |-> FALSE]
    ELSE IF outcome \in {"count_mismatch", "store_raise"}
      THEN [ok |-> FALSE, coll |-> coll, embedded |-> TRUE]
    ELSE LET added == CollectionAdd(coll, [i \in DOMAIN log_entries |->
                                              StoredVector(log_entries[i])])
         IN [ok |-> ~added.raised, coll |-> added.coll, embedded |-> TRUE]

\* LogEmbeddings.get_collection_stats: the dict it returns, {} when
\* collection.count raises
GetCollectionStatsResult(coll, outcome) ==
    IF outcome = "ok"
      THEN [keys |-> {"total_logs", "collection_name", "persist_directory"},
            total_logs |-> Len(coll)]
      ELSE [keys |-> {}]

(*************************** inputs ****************************************)
Outcomes == {"ok", "raise"}
SearchOutcomes == {"ok", "embed_raise", "store_raise"}
EmbedOutcomes == {"ok", "embed_raise", "count_mismatch", "store_raise"}
ClearOutcomes == {"ok", "delete_raise", "create_raise"}
HttpOutcomes == {"200", "500", "raise"}
Topics == {0, 1, 2}
MinSeverities == {"medium", "critical"}
Modes == {"LogAnalyzer", "SlackEnabledAnalyzer"}

EmptyObject == [k \in Keys |-> Missing]

BaseObject ==
    [issue |-> Str("Repeated failed logins"),
     recommendation |-> Str("Lock the account"),
     severity |-> Str("high"),
     confidence |-> Num(90),
     category |-> Str("security"),
     affected_systems |-> List(<<Txt(2)>>),
     timeline |-> Str("immediate"),
     log_evidence |-> List(<<Txt(4)>>)]

ObjectWith(sev, conf, cat) ==
    [BaseObject EXCEPT !["severity"] = sev, !["confidence"] = conf, !["category"] = cat]

\* a response whose text json.loads rejects
NonJson(n) == [text |-> Txt(n), json |-> [kind |-> "invalid", obj |-> EmptyObject]]
\* a response whose text is valid JSON but no object
NonObject(kind) == [text |-> Txt(2), json |-> [kind |-> kind, obj |-> EmptyObject]]
\* a response whose text is a JSON object
JsonObject(data) == [text |-> Txt(2), json |-> [kind |-> "object", obj |-> data]]

\* the answers of the generation capability tried in the pipeline
Responses ==
    {NonJson(3), NonObject("array"),
     JsonObject(ObjectWith(Str("critical"), Null, Str("security"))),
     JsonObject(ObjectWith(Str("critical"), Str("high"), Str("security"))),
     JsonObject(ObjectWith(Str("critical"), Missing, Str("security"))),
     JsonObject(ObjectWith(Str("critical"), Num(90), Str("performance"))),
     JsonObject(ObjectWith(Str("critical"), Num(40), Str("security"))),
     JsonObject(ObjectWith(Str("critical"), Num(NaN), Str("security"))),
     JsonObject([BaseObject EXCEPT !["affected_systems"] = List(<<NumberItem>>)]),
     JsonObject(ObjectWith(Str("medium"), Num(90), Str("security"))),
     JsonObject(ObjectWith(Str("medium"), Num(90), Str("performance"))),
     JsonObject(ObjectWith(Str("low"), Num(90), Str("security"))),
     JsonObject(ObjectWith(Str("info"), Num(150), Str("network")))}

(*************************** state *****************************************)
Event(ev, who, rec, ok) == [ev |-> ev, who |-> who, rec |-> rec, ok |-> ok]

\* positions in trace of the calls of one kind
Events(ev, who) == {i \in DOMAIN trace : trace[i].ev = ev /\ trace[i].who = who}

NoCall == [op |-> "none", query |-> 0, n_results |-> 0,
           send_slack_alert |-> FALSE, w_send |-> FALSE]

\* analyze_recent_logs is not running
NoRecent == [i |-> 0, recommendations |-> <<>>, returned |-> <<>>, alerted |-> <<>>]

NoSearch == [query |-> 0, n_results |-> 0, count |-> 0,
             out |-> [hits |-> <<>>, raised |-> FALSE, failed |-> FALSE,
                      store_invoked |-> FALSE]]

\* LogAnalyzer._initialize_slack
InitializeSlack(enable_slack, webhook, min_severity, init) ==
    IF ~enable_slack THEN NoNotifier
    ELSE IF init = "raise" THEN NoNotifier
    ELSE SlackNotifier(webhook, min_severity)

\* SlackEnabledAnalyzer.__init__ with _initialize_slack
WrapperInitializeSlack(enable_slack, webhook, min_severity, init) ==
    IF ~enable_slack THEN NoNotifier
    ELSE IF init = "raise" THEN NoNotifier
    ELSE SlackNotifier(webhook, min_severity)

\* the object the program builds: a LogAnalyzer(enable_slack), or a
\* SlackEnabledAnalyzer(enable_slack) around a LogAnalyzer()
Construct(m, enable_slack, webhook, min_severity, init) ==
    /\ mode = m
    /\ slack_enabled = IF m = "LogAnalyzer" THEN enable_slack ELSE TRUE
    /\ slack_notifier = InitializeSlack(slack_enabled, webhook, min_severity, init)
    /\ w_slack_enabled = IF m = "LogAnalyzer" THEN FALSE ELSE enable_slack
    /\ w_notifier = IF m = "LogAnalyzer" THEN NoNotifier
                    ELSE WrapperInitializeSlack(enable_slack, webhook, min_severity, init)

Init ==
    /\ \E m \in Modes, enable_slack \in BOOLEAN, webhook \in BOOLEAN,
          min_severity \in MinSeverities, init \in Outcomes :
          Construct(m, enable_slack, webhook, min_severity, init)
    /\ collection = <<>>
    /\ pc = "idle"
    /\ call = NoCall
    /\ similar_logs = <<>>
    /\ response = None
    /\ recommendation = None
    /\ result = None
    /\ trace = <<>>
    /\ lastSearch = NoSearch
    /\ stale = FALSE
    /\ entries = <<>>
    /\ reembedded = {}
    /\ recent = NoRecent

Idle == pc \in {"idle", "done"}

configVars == <<mode, slack_notifier, slack_enabled, w_notifier, w_slack_enabled>>
storeVars == <<collection, stale>>
entryVars == <<entries, reembedded>>

\* where LogAnalyzer.analyze_logs returns to: the loop of
\* analyze_recent_logs, the wrapper, or the caller
Return ==
    IF call.op = "analyze_recent_logs" THEN "collect"
    ELSE IF mode = "SlackEnabledAnalyzer" THEN "wrapper_gate"
    ELSE "done"

(*************************** LogEmbeddings operations **********************)
\* what a collaborator call on self.collection does: a stale handle makes
\* every call on it raise
StoreOutcome(outcome) == IF stale /\ outcome = "ok" THEN "store_raise" ELSE outcome

\* LogEmbeddings.embed_logs on freshly parsed entries of the given topics
\* (parse_logs followed by embed_logs, as the CLI and the web API do).  A
\* fresh entry's uuid4 id is one no stored vector has.
EmbedLogs(docs, outcome) ==
    /\ Idle
    /\ Len(collection) + Len(docs) <= MaxStored
    /\ LET log_entries == [i \in 1..Len(docs) |->
                              LogEntryOf(Len(collection) + i, docs[i], "manual")]
           r == EmbedLogsResult(collection, log_entries, StoreOutcome(outcome))
       IN /\ collection' = r.coll
          /\ result' = [none |-> FALSE, ok |-> r.ok]
          /\ call' = [op |-> "embed_logs", log_entries |-> log_entries]
    /\ pc' = "idle"
    /\ similar_logs' = <<>> /\ response' = None /\ recommendation' = None
    /\ trace' = <<>>
    /\ lastSearch' = NoSearch
    /\ UNCHANGED <<configVars, stale, entryVars, recent>>

\* LogEmbeddings.clear_collection; outcome is what the store does: "ok",
\* "delete_raise" (delete_collection fails) or "create_raise"
\* (get_or_create_collection fails after the collection was deleted, which
\* leaves self.collection a stale handle).  Deleting through a stale
\* handle's name fails: the collection does not exist.  Every exception is
\* caught and the call returns normally.
ClearCollection(outcome) ==
    /\ Idle
    /\ IF stale \/ outcome = "delete_raise"
         THEN UNCHANGED <<collection, stale>>
         ELSE /\ collection' = <<>>
              /\ stale' = (outcome = "create_raise")
    /\ pc' = "idle"
    /\ call' = [NoCall EXCEPT !.op = "clear_collection"]
    /\ result' = None
    /\ similar_logs' = <<>> /\ response' = None /\ recommendation' = None
    /\ trace' = <<>>
    /\ lastSearch' = NoSearch
    /\ UNCHANGED <<configVars, entryVars, recent>>

\* a direct call of LogEmbeddings.search_similar_logs(query, n_results);
\* outcome is what the collaborators do: "ok", "embed_raise" (embed_query
\* fails) or "store_raise" (collection.query fails)
SearchCall(query, n_results, outcome) ==
    /\ Idle
    /\ lastSearch' = [query |-> query, n_results |-> n_results,
                      count |-> Len(collection),
                      out |-> SearchSimilarLogs(collection, query, n_results,
                                                StoreOutcome(outcome))]
    /\ pc' = "idle"
    /\ call' = [NoCall EXCEPT !.op = "search_similar_logs",
                              !.query = query, !.n_results = n_results]
    /\ result' = None
    /\ similar_logs' = <<>> /\ response' = None /\ recommendation' = None
    /\ trace' = <<>>
    /\ UNCHANGED <<configVars, storeVars, entryVars, recent>>

(*************************** LogAnalyzer.analyze_logs **********************)
\* a caller enters LogAnalyzer.analyze_logs(query, send_slack_alert=send)
AnalyzeLogsStart(query, send) ==
    /\ Idle
    /\ mode = "LogAnalyzer"
    /\ pc' = "search"
    /\ call' = [op |-> "analyze_logs", query |-> query,
                n_results |-> analysis_chunk_size,
                send_slack_alert |-> send, w_send |-> FALSE]
    /\ result' = None
    /\ similar_logs' = <<>> /\ response' = None /\ recommendation' = None
    /\ trace' = <<>>
    /\ lastSearch' = NoSearch
    /\ UNCHANGED <<configVars, storeVars, entryVars, recent>>

\* a caller enters SlackEnabledAnalyzer.analyze_logs(query,
\* send_slack_alert=send), which calls self.analyzer.analyze_logs(query,
\* context): the inner call runs with its default send_slack_alert=True
WrapperAnalyzeLogsStart(query, send) ==
    /\ Idle
    /\ mode = "SlackEnabledAnalyzer"
    /\ pc' = "search"
    /\ call' = [op |-> "analyze_logs", query |-> query,
                n_results |-> analysis_chunk_size,
                send_slack_alert |-> TRUE, w_send |-> send]
    /\ result' = None
    /\ similar_logs' = <<>> /\ response' = None /\ recommendation' = None
    /\ trace' = <<>>
    /\ lastSearch' = NoSearch
    /\ UNCHANGED <<configVars, storeVars, entryVars, recent>>

\* mutant: the early return on an empty retrieval is missing
StepSearch_NoEarlyReturn(outcome) ==
    /\ pc = "search"
    /\ LET out == SearchSimilarLogs(collection, call.query, call.n_results,
                                    StoreOutcome(outcome))
       IN /\ lastSearch' = [query |-> call.query, n_results |-> call.n_results,
                            count |-> Len(collection), out |-> out]
          /\ similar_logs' = out.hits
          /\ trace' = Append(trace, Event("search", "core", None, out.hits # <<>>))
          /\ pc' = "generate"
    /\ UNCHANGED <<configVars, storeVars, entryVars, recent, call, response, recommendation, result>>

\* step 1: similar_logs = search_similar_logs(...); nothing found (or an
\* exception) returns None
StepSearch(outcome) ==
    /\ pc = "search"
    /\ LET out == SearchSimilarLogs(collection, call.query, call.n_results,
                                    StoreOutcome(outcome))
       IN /\ lastSearch' = [query |-> call.query, n_results |-> call.n_results,
                            count |-> Len(collection), out |-> out]
          /\ similar_logs' = out.hits
          /\ trace' = Append(trace, Event("search", "core", None, out.hits # <<>>))
          /\ pc' = IF out.raised \/ out.hits = <<>> THEN Return ELSE "generate"
    /\ UNCHANGED <<configVars, storeVars, entryVars, recent, call, response, recommendation, result>>

\* mutant: a failed generation is tried again
StepGenerate_Retry(llm, answer) ==
    /\ pc = "generate"
    /\ trace' = Append(trace, Event("llm", "core", None, llm = "ok"))
    /\ IF llm = "raise"
         THEN /\ response' = None
              /\ pc' = IF Events("llm", "core") = {} THEN "generate" ELSE Return
         ELSE /\ response' = answer
              /\ pc' = "parse"
    /\ UNCHANGED <<configVars, storeVars, entryVars, recent, call, similar_logs, recommendation,
                   result, lastSearch>>

\* steps 2-4: the prompt is rendered from similar_logs and handed to
\* self.llm.invoke once; an exception returns None
StepGenerate(llm, answer) ==
    /\ pc = "generate"
    /\ trace' = Append(trace, Event("llm", "core", None, llm = "ok"))
    /\ IF llm = "raise"
         THEN /\ response' = None
              /\ pc' = Return
         ELSE /\ response' = answer
              /\ pc' = "parse"
    /\ UNCHANGED <<configVars, storeVars, entryVars, recent, call, similar_logs, recommendation,
                   result, lastSearch>>

\* step 5: recommendation = parser.parse(response.content); an exception
\* parse lets through is caught by analyze_logs, which returns None
StepParse ==
    /\ pc = "parse"
    /\ LET p == Parse(response)
       IN /\ trace' = Append(trace, Event("parse", "core", p.rec, ~p.raised))
          /\ recommendation' = p.rec
          /\ pc' = IF p.raised THEN Return ELSE "gate"
    /\ UNCHANGED <<configVars, storeVars, entryVars, recent, call, similar_logs, response, result,
                   lastSearch>>

\* mutant: the alert is sent whatever send_slack_alert says
StepGate_IgnoresFlag ==
    /\ pc = "gate"
    /\ LET g == ShouldSendSlackAlert(slack_notifier, recommendation)
       IN /\ trace' = Append(trace, Event("gate", "core", recommendation, g))
          /\ pc' = IF g THEN "send" ELSE Return
          /\ result' = IF g THEN result ELSE recommendation
    /\ UNCHANGED <<configVars, storeVars, entryVars, recent, call, similar_logs, response,
                   recommendation, lastSearch>>

\* step 6, the condition: send_slack_alert and _should_send_slack_alert(...)
StepGate ==
    /\ pc = "gate"
    /\ IF call.send_slack_alert
         THEN LET g == ShouldSendSlackAlert(slack_notifier, recommendation)
              IN /\ trace' = Append(trace, Event("gate", "core", recommendation, g))
                 /\ pc' = IF g THEN "send" ELSE Return
                 /\ result' = IF g THEN result ELSE recommendation
         ELSE /\ trace' = trace
              /\ pc' = Return
              /\ result' = recommendation
    /\ UNCHANGED <<configVars, storeVars, entryVars, recent, call, similar_logs, response,
                   recommendation, lastSearch>>

\* the events of one send_security_alert call
SendEvents(who, rec, sent) ==
    <<Event("send", who, rec, sent.ok)>>
    \o (IF sent.posted THEN <<Event("post", who, rec, sent.ok)>> ELSE <<>>)

\* mutant: a delivery that did not succeed reaches the except clause of
\* analyze_logs, which returns None
StepSend_FailureDropsResult(http) ==
    /\ pc = "send"
    /\ LET sent == SendSecurityAlert(slack_notifier, recommendation, http)
       IN /\ trace' = trace \o SendEvents("core", recommendation, sent)
          /\ result' = IF sent.ok THEN recommendation ELSE None
    /\ pc' = Return
    /\ UNCHANGED <<configVars, storeVars, entryVars, recent, call, similar_logs, response,
                   recommendation, lastSearch>>

\* step 6, the body: _send_slack_alert(recommendation, source_file), which
\* swallows every exception, then return recommendation
StepSend(http) ==
    /\ pc = "send"
    /\ trace' = trace \o SendEvents("core", recommendation,
                                    SendSecurityAlert(slack_notifier, recommendation, http))
    /\ result' = recommendation
    /\ pc' = Return
    /\ UNCHANGED <<configVars, storeVars, entryVars, recent, call, similar_logs, response,
                   recommendation, lastSearch>>

(*************************** SlackEnabledAnalyzer.analyze_logs *************)
\* result and send_slack_alert and self._should_send_slack_alert(result)
StepWrapperGate ==
    /\ pc = "wrapper_gate"
    /\ IF result # None /\ call.w_send
         THEN LET g == WrapperShouldSendSlackAlert(w_slack_enabled, w_notifier, result)
              IN /\ trace' = Append(trace, Event("gate", "wrapper", result, g))
                 /\ pc' = IF g THEN "wrapper_send" ELSE "done"
         ELSE /\ trace' = trace
              /\ pc' = "done"
    /\ UNCHANGED <<configVars, storeVars, entryVars, recent, call, similar_logs, response,
                   recommendation, result, lastSearch>>

\* self._send_slack_alert(result, source_file); return result
StepWrapperSend(http) ==
    /\ pc = "wrapper_send"
    /\ trace' = trace \o SendEvents("wrapper", result,
                                    SendSecurityAlert(w_notifier, result, http))
    /\ pc' = "done"
    /\ UNCHANGED <<configVars, storeVars, entryVars, recent, call, similar_logs, response,
                   recommendation, result, lastSearch>>

(*************************** specifications ********************************)
Ks == {-1, 0, 1, analysis_chunk_size}
Batches == {<<>>} \cup {<<a>> : a \in Topics} \cup {<<a, b>> : a, b \in Topics}

Next ==
    \/ \E docs \in Batches, outcome \in SearchOutcomes : EmbedLogs(docs, outcome)
    \/ \E outcome \in ClearOutcomes : ClearCollection(outcome)
    \/ \E q \in Topics, k \in Ks, outcome \in SearchOutcomes : SearchCall(q, k, outcome)
    \/ \E q \in Topics, send \in BOOLEAN : AnalyzeLogsStart(q, send)
    \/ \E q \in Topics, send \in BOOLEAN : WrapperAnalyzeLogsStart(q, send)
    \/ \E outcome \in SearchOutcomes : StepSearch(outcome)
    \/ \E llm \in Outcomes, answer \in Responses : StepGenerate(llm, answer)
    \/ StepParse
    \/ StepGate
    \/ \E http \in HttpOutcomes : StepSend(http)
    \/ StepWrapperGate
    \/ \E http \in HttpOutcomes : StepWrapperSend(http)

Spec == Init /\ [][Next]_vars

(*************************** the parser on its own **************************)
TextLens == {0, 1, EvidenceLimit - 1, EvidenceLimit, EvidenceLimit + 1,
             EvidenceLimit + LongTextExcess}

SeverityValues == {Missing, Null, Str("low"), Str("medium"), Str("high"),
                   Str("critical"), Str("HIGH"), Str("info")}
ConfidenceValues == {Missing, Null, Object, List(<<>>), Bool(TRUE), Str("0.7"), Str("high"),
                     Str("nan"), Num(NaN),
                     Num(-20), Num(10), Num(30), Num(49), Num(50), Num(51),
                     Num(90), Num(100), Num(150)}
CategoryValues == {Missing, Str("security"), Str("SECURITY"), Str("performance"),
                   Str("compliance"), Str("network")}
TimelineValues == {Missing, Null, Str("Immediate"), Str("long-term"), Str("soon")}
ListValues == {Missing, Null, Str("db-01"), List(<<>>), List(<<Txt(2), Txt(3)>>),
               List(<<NumberItem>>), List(<<Txt(2), Txt(3), NumberItem>>)}
IssueValues == {Missing, Null, Str("Disk full"), Num(700)}

\* every kind of answer the generation capability can give
AllResponses ==
    {NonJson(n) : n \in TextLens}
    \cup {NonObject(k) : k \in {"array", "number", "string", "null", "bool"}}
    \cup {JsonObject(ObjectWith(s, c, g)) :
            s \in SeverityValues, c \in ConfidenceValues, g \in CategoryValues}
    \cup {JsonObject([BaseObject EXCEPT !["timeline"] = t, !["affected_systems"] = a,
                                        !["log_evidence"] = e, !["issue"] = i,
                                        !["recommendation"] = i]) :
            t \in TimelineValues, a \in ListValues, e \in ListValues, i \in IssueValues}

OneStored == <<[id |-> 1, document |-> 0, embedding |-> EmbedVec(0),
                metadata |-> [source |-> "manual"]]>>

\* analyze_logs stopped right after self.llm.invoke answered: one vector is
\* stored, the query found it, and the answer is any of AllResponses
InitParser ==
    /\ \E m \in Modes, enable_slack \in BOOLEAN, webhook \in BOOLEAN :
          Construct(m, enable_slack, webhook, "medium", "ok")
    /\ collection = OneStored
    /\ pc = "parse"
    /\ \E send \in BOOLEAN :
          call = [op |-> "analyze_logs", query |-> 0,
                  n_results |-> analysis_chunk_size,
                  send_slack_alert |-> IF mode = "LogAnalyzer" THEN send ELSE TRUE,
                  w_send |-> IF mode = "LogAnalyzer" THEN FALSE ELSE send]
    /\ lastSearch = [query |-> 0, n_results |-> analysis_chunk_size, count |-> 1,
                     out |-> SearchSimilarLogs(OneStored, 0, analysis_chunk_size, "ok")]
    /\ similar_logs = lastSearch.out.hits
    /\ response \in AllResponses
    /\ recommendation = None
    /\ result = None
    /\ trace = <<Event("search", "core", None, TRUE), Event("llm", "core", None, TRUE)>>
    /\ stale = FALSE
    /\ entries = <<>>
    /\ reembedded = {}
    /\ recent = NoRecent

NextParser ==
    \/ StepParse
    \/ StepGate
    \/ \E http \in HttpOutcomes : StepSend(http)
    \/ StepWrapperGate
    \/ \E http \in HttpOutcomes : StepWrapperSend(http)

SpecParser == InitParser /\ [][NextParser]_vars

(*************************** LogAnalyzer.analyze_recent_logs ***************)
\* common_queries, each text by its topic
CommonQueries == <<0, 1, 2, 3, 4>>

\* a caller enters LogAnalyzer.analyze_recent_logs(send_slack_alerts=send):
\* the loop starts analyze_logs on the first query
AnalyzeRecentLogsStart(send) ==
    /\ Idle
    /\ mode = "LogAnalyzer"
    /\ pc' = "search"
    /\ call' = [op |-> "analyze_recent_logs", query |-> CommonQueries[1],
                n_results |-> analysis_chunk_size,
                send_slack_alert |-> send, w_send |-> FALSE]
    /\ recent' = [i |-> 1, recommendations |-> <<>>, returned |-> <<>>, alerted |-> <<>>]
    /\ result' = None
    /\ similar_logs' = <<>> /\ response' = None /\ recommendation' = None
    /\ trace' = <<>>
    /\ lastSearch' = NoSearch
    /\ UNCHANGED <<configVars, storeVars, entryVars>>

\* mutant: a recommendation of confidence 0.3 is kept too
StepCollect_AtLeast ==
    /\ pc = "collect"
    /\ recent' = [i |-> recent.i + 1,
                  recommendations |->
                      IF result # None /\ PyGe(result.confidence, InclusionThreshold)
                        THEN Append(recent.recommendations, result)
                        ELSE recent.recommendations,
                  returned |-> Append(recent.returned, result),
                  alerted |-> recent.alerted
                                \o (IF Events("post", "core") # {}
                                      THEN <<recommendation>> ELSE <<>>)]
    /\ IF recent.i < Len(CommonQueries)
         THEN /\ pc' = "search"
              /\ call' = [call EXCEPT !.query = CommonQueries[recent.i + 1]]
              /\ result' = None
              /\ similar_logs' = <<>> /\ response' = None /\ recommendation' = None
              /\ trace' = <<>>
              /\ lastSearch' = NoSearch
         ELSE /\ pc' = "summary"
              /\ UNCHANGED <<call, result, similar_logs, response, recommendation,
                             trace, lastSearch>>
    /\ UNCHANGED <<configVars, storeVars, entryVars>>

\* the body of the loop after analyze_logs returned: the recommendation is
\* appended if there is one and its confidence is above 0.3; then the next
\* query's analyze_logs starts (trace holds the calls of the running
\* analyze_logs), or the loop is over. returned and alerted keep what the
\* finished analyze_logs returned and whether its alert was posted.
StepCollect ==
    /\ pc = "collect"
    /\ recent' = [i |-> recent.i + 1,
                  recommendations |->
                      IF result # None /\ PyGt(result.confidence, InclusionThreshold)
                        THEN Append(recent.recommendations, result)
                        ELSE recent.recommendations,
                  returned |-> Append(recent.returned, result),
                  alerted |-> recent.alerted
                                \o (IF Events("post", "core") # {}
                                      THEN <<recommendation>> ELSE <<>>)]
    /\ IF recent.i < Len(CommonQueries)
         THEN /\ pc' = "search"
              /\ call' = [call EXCEPT !.query = CommonQueries[recent.i + 1]]
              /\ result' = None
              /\ similar_logs' = <<>> /\ response' = None /\ recommendation' = None
              /\ trace' = <<>>
              /\ lastSearch' = NoSearch
         ELSE /\ pc' = "summary"
              /\ UNCHANGED <<call, result, similar_logs, response, recommendation,
                             trace, lastSearch>>
    /\ UNCHANGED <<configVars, storeVars, entryVars>>

\* the methods of class SlackNotifier
SlackNotifierMethods ==
    {"__init__", "send_security_alert", "_send_alert", "send_test_message",
     "_meets_severity_threshold", "get_status"}

\* LogAnalyzer._send_slack_summary: the report is handed to the notifier only
\* if hasattr(self.slack_notifier, 'send_summary_report')
SendSlackSummary == "send_summary_report" \in SlackNotifierMethods

\* after the loop: _send_slack_summary is called when send_slack_alerts, the
\* list is not empty and the notifier is enabled; return recommendations
StepSummary ==
    /\ pc = "summary"
    /\ trace' = IF /\ call.send_slack_alert
                   /\ recent.recommendations # <<>>
                   /\ slack_notifier.present /\ slack_notifier.enabled
                  THEN Append(trace, Event("summary", "core", None, SendSlackSummary))
                  ELSE trace
    /\ result' = [none |-> FALSE, recommendations |-> recent.recommendations]
    /\ pc' = "done"
    /\ UNCHANGED <<configVars, storeVars, entryVars, recent, call, similar_logs,
                   response, recommendation, lastSearch>>

\* answers of the generation capability around the inclusion threshold
RecentResponses ==
    {NonObject("array"),
     JsonObject(ObjectWith(Str("high"), Num(NaN), Str("security")))}
    \cup {JsonObject(ObjectWith(Str("high"), Num(c), Str("security"))) :
            c \in {InclusionThreshold - 10, InclusionThreshold,
                   InclusionThreshold + 1, 90}}

\* a LogAnalyzer with its notifier, one vector stored
InitRecent ==
    /\ \E webhook \in BOOLEAN : Construct("LogAnalyzer", TRUE, webhook, "medium", "ok")
    /\ collection = OneStored
    /\ pc = "idle"
    /\ call = NoCall
    /\ similar_logs = <<>>
    /\ response = None
    /\ recommendation = None
    /\ result = None
    /\ trace = <<>>
    /\ lastSearch = NoSearch
    /\ stale = FALSE
    /\ entries = <<>>
    /\ reembedded = {}
    /\ recent = NoRecent

NextRecent ==
    \/ \E send \in BOOLEAN : AnalyzeRecentLogsStart(send)
    \/ \E outcome \in SearchOutcomes : StepSearch(outcome)
    \/ \E llm \in Outcomes, answer \in RecentResponses : StepGenerate(llm, answer)
    \/ StepParse
    \/ StepGate
    \/ \E http \in HttpOutcomes : StepSend(http)
    \/ StepCollect
    \/ StepSummary

SpecRecent == InitRecent /\ [][NextRecent]_vars

(*************************** the Slack switches *****************************)
\* LogAnalyzer.set_slack_enabled(enabled)
SetSlackEnabled(enabled) ==
    /\ Idle
    /\ mode = "LogAnalyzer"
    /\ slack_enabled' = enabled
    /\ pc' = "idle"
    /\ call' = [NoCall EXCEPT !.op = "set_slack_enabled"]
    /\ result' = None
    /\ similar_logs' = <<>> /\ response' = None /\ recommendation' = None
    /\ trace' = <<>>
    /\ lastSearch' = NoSearch
    /\ UNCHANGED <<mode, slack_notifier, w_notifier, w_slack_enabled,
                   storeVars, entryVars, recent>>

\* SlackEnabledAnalyzer.set_slack_enabled(enabled)
WrapperSetSlackEnabled(enabled) ==
    /\ Idle
    /\ mode = "SlackEnabledAnalyzer"
    /\ w_slack_enabled' = enabled
    /\ pc' = "idle"
    /\ call' = [NoCall EXCEPT !.op = "set_slack_enabled"]
    /\ result' = None
    /\ similar_logs' = <<>> /\ response' = None /\ recommendation' = None
    /\ trace' = <<>>
    /\ lastSearch' = NoSearch
    /\ UNCHANGED <<mode, slack_notifier, slack_enabled, w_notifier,
                   storeVars, entryVars, recent>>

\* a finding the gate approves and one it refuses
ControlResponses ==
    {JsonObject(ObjectWith(Str("critical"), Num(90), Str("security"))),
     JsonObject(ObjectWith(Str("low"), Num(90), Str("security")))}

\* either analyzer, built with or without Slack and webhook, one vector stored
InitControls ==
    /\ \E m \in Modes, enable_slack \in BOOLEAN, webhook \in BOOLEAN :
          Construct(m, enable_slack, webhook, "medium", "ok")
    /\ collection = OneStored
    /\ pc = "idle"
    /\ call = NoCall
    /\ similar_logs = <<>>
    /\ response = None
    /\ recommendation = None
    /\ result = None
    /\ trace = <<>>
    /\ lastSearch = NoSearch
    /\ stale = FALSE
    /\ entries = <<>>
    /\ reembedded = {}
    /\ recent = NoRecent

NextControls ==
    \/ \E enabled \in BOOLEAN : SetSlackEnabled(enabled)
    \/ \E enabled \in BOOLEAN : WrapperSetSlackEnabled(enabled)
    \/ \E send \in BOOLEAN : AnalyzeLogsStart(0, send)
    \/ \E send \in BOOLEAN : WrapperAnalyzeLogsStart(0, send)
    \/ \E outcome \in SearchOutcomes : StepSearch(outcome)
    \/ \E llm \in Outcomes, answer \in ControlResponses : StepGenerate(llm, answer)
    \/ StepParse
    \/ StepGate
    \/ \E http \in HttpOutcomes : StepSend(http)
    \/ StepWrapperGate
    \/ \E http \in HttpOutcomes : StepWrapperSend(http)

SpecControls == InitControls /\ [][NextControls]_vars

(*************************** the notifier on its own ************************)
\* SLACK_MIN_SEVERITY: the five levels and two values outside the table
NotifierMinSeverities == AlertSeverityValues \cup {"urgent", "MEDIUM"}

\* the alerts handed to _send_alert
Alerts ==
    [severity : AlertSeverityValues,
     affected_systems : {<<>>, <<Txt(2)>>, <<NumberItem>>},
     log_evidence : {<<>>, <<Txt(4)>>, <<NumberItem>>, <<Txt(2), Txt(3), NumberItem>>}]

\* a SlackNotifier with or without webhook, any SLACK_MIN_SEVERITY, and an
\* alert to send
InitNotifier ==
    /\ \E webhook \in BOOLEAN, min_severity \in NotifierMinSeverities :
          Construct("LogAnalyzer", TRUE, webhook, min_severity, "ok")
    /\ collection = <<>>
    /\ pc = "idle"
    /\ \E alert \in Alerts : call = [op |-> "notifier", alert |-> alert]
    /\ similar_logs = <<>>
    /\ response = None
    /\ recommendation = None
    /\ result = None
    /\ trace = <<>>
    /\ lastSearch = NoSearch
    /\ stale = FALSE
    /\ entries = <<>>
    /\ reembedded = {}
    /\ recent = NoRecent

\* a finished notifier call: what was called, what requests.post did, and
\* what _send_alert did and returned
NotifierResult(op, http, sent) ==
    [none |-> FALSE, op |-> op, http |-> http, posted |-> sent.posted, ok |-> sent.ok]

\* slack_notifier._send_alert(alert)
SendAlertCall(http) ==
    /\ pc = "idle"
    /\ call.op = "notifier"
    /\ result' = NotifierResult("_send_alert", http,
                                SendAlert(slack_notifier, call.alert, http))
    /\ pc' = "done"
    /\ UNCHANGED <<configVars, storeVars, entryVars, recent, call, similar_logs,
                   response, recommendation, trace, lastSearch>>

\* slack_notifier.send_test_message()
SendTestMessageCall(http) ==
    /\ pc = "idle"
    /\ call.op = "notifier"
    /\ result' = NotifierResult("send_test_message", http,
                                SendTestMessage(slack_notifier, http))
    /\ pc' = "done"
    /\ UNCHANGED <<configVars, storeVars, entryVars, recent, call, similar_logs,
                   response, recommendation, trace, lastSearch>>

NextNotifier ==
    \/ \E http \in HttpOutcomes : SendAlertCall(http)
    \/ \E http \in HttpOutcomes : SendTestMessageCall(http)

SpecNotifier == InitNotifier /\ [][NextNotifier]_vars

(*************************** the store on its own ***************************)
\* LogEmbeddings.parse_logs on log data whose non-blank lines have the given
\* topics: one new LogEntry per line, each with a fresh uuid4 id; the caller
\* keeps the objects
ParseLogsCall(docs) ==
    /\ Idle
    /\ Len(entries) + Len(docs) <= MaxEntries
    /\ LET log_entries == [i \in 1..Len(docs) |->
                              LogEntryOf(Len(entries) + i, docs[i], "manual")]
       IN /\ entries' = entries \o log_entries
          /\ result' = [none |-> FALSE, log_entries |-> log_entries]
    /\ pc' = "idle"
    /\ call' = [NoCall EXCEPT !.op = "parse_logs"]
    /\ similar_logs' = <<>> /\ response' = None /\ recommendation' = None
    /\ trace' = <<>>
    /\ lastSearch' = NoSearch
    /\ UNCHANGED <<configVars, storeVars, reembedded, recent>>

\* LogEmbeddings.embed_logs on LogEntry objects the caller holds: ids are
\* positions in entries, in the order of the list handed in
EmbedEntries(ids, outcome) ==
    /\ Idle
    /\ LET log_entries == [i \in DOMAIN ids |-> entries[ids[i]]]
           r == EmbedLogsResult(collection, log_entries, StoreOutcome(outcome))
       IN /\ collection' = r.coll
          /\ result' = [none |-> FALSE, ok |-> r.ok]
          /\ call' = [op |-> "embed_logs", log_entries |-> log_entries]
          /\ reembedded' = IF r.embedded
                             THEN reembedded \cup
                                  {ids[i] : i \in {j \in DOMAIN ids :
                                                     Visible(collection, log_entries[j])}}
                             ELSE reembedded
    /\ pc' = "idle"
    /\ similar_logs' = <<>> /\ response' = None /\ recommendation' = None
    /\ trace' = <<>>
    /\ lastSearch' = NoSearch
    /\ UNCHANGED <<configVars, stale, entries, recent>>

\* LogEmbeddings.get_collection_stats; outcome is what collection.count does
GetCollectionStats(outcome) ==
    /\ Idle
    /\ result' = [none |-> FALSE,
                  stats |-> GetCollectionStatsResult(collection, StoreOutcome(outcome))]
    /\ pc' = "idle"
    /\ call' = [NoCall EXCEPT !.op = "get_collection_stats"]
    /\ similar_logs' = <<>> /\ response' = None /\ recommendation' = None
    /\ trace' = <<>>
    /\ lastSearch' = NoSearch
    /\ UNCHANGED <<configVars, storeVars, entryVars, recent>>

\* the lists of held entries a caller hands to embed_logs
IdBatches ==
    {<<>>} \cup {<<a>> : a \in DOMAIN entries}
           \cup {<<a, b>> : a, b \in DOMAIN entries}

\* a LogEmbeddings of its own (no Slack), the collection empty
InitStore ==
    /\ Construct("LogAnalyzer", FALSE, FALSE, "medium", "ok")
    /\ collection = <<>>
    /\ pc = "idle"
    /\ call = NoCall
    /\ similar_logs = <<>>
    /\ response = None
    /\ recommendation = None
    /\ result = None
    /\ trace = <<>>
    /\ lastSearch = NoSearch
    /\ stale = FALSE
    /\ entries = <<>>
    /\ reembedded = {}
    /\ recent = NoRecent

NextStore ==
    \/ \E docs \in Batches : ParseLogsCall(docs)
    \/ \E ids \in IdBatches, outcome \in EmbedOutcomes : EmbedEntries(ids, outcome)
    \/ \E outcome \in ClearOutcomes : ClearCollection(outcome)
    \/ \E q \in Topics, outcome \in SearchOutcomes :
          SearchCall(q, analysis_chunk_size, outcome)
    \/ \E outcome \in Outcomes : GetCollectionStats(outcome)

SpecStore == InitStore /\ [][NextStore]_vars

(*************************** LogEntry.to_chroma_metadata *******************)
\* a string value given by its characters
Text(q) == [t |-> "str", s |-> "", n |-> 0, l |-> q]

\* a dict: [none |-> FALSE, items |-> the function from its keys to its
\* values]; structured_data is a dict or None
Dict(items) == [none |-> FALSE, items |-> items]

\* isinstance(value, (str, int, float, bool)) and value is not None
IsSimple(v) == v.t \in {"str", "num", "bool"}

\* mutant: the strings of structured fields are cut to MetaLimit characters
ToChromaMetadata_Truncating(e) ==
    LET sd == e.structured_data
        skeys == IF sd.none \/ DOMAIN sd.items = {} THEN {}
                 ELSE {k \in DOMAIN sd.items : IsSimple(sd.items[k])}
        mkeys == {k \in DOMAIN e.metadata.items : IsSimple(e.metadata.items[k])}
        svalue(k) == LET v == sd.items[k]
                     IN IF v.t = "str" /\ Len(v.l) > MetaLimit
                          THEN Text(SubSeq(v.l, 1, MetaLimit)) ELSE v
    IN [fk \in {"timestamp", "source"}
               \cup {"struct_" \o k : k \in skeys}
               \cup {"meta_" \o k : k \in mkeys} |->
          IF fk = "timestamp" THEN Str(e.timestamp)
          ELSE IF fk = "source" THEN Str(e.source)
          ELSE IF \E k \in skeys : fk = "struct_" \o k
            THEN svalue(CHOOSE k \in skeys : fk = "struct_" \o k)
          ELSE e.metadata.items[CHOOSE k \in mkeys : fk = "meta_" \o k]]

\* LogEntry.to_chroma_metadata: timestamp and source, then the structured
\* fields under "struct_" and the custom metadata under "meta_".  In the
\* loop over structured_data the first branch takes every str, int, float
\* and bool and stores the value as it is; the elif that cuts a str to
\* MetaLimit characters only sees values the first branch refused.
ToChromaMetadata(e) ==
    LET sd == e.structured_data
        first(v) == IsSimple(v)
        second(v) == ~first(v) /\ v.t = "str"
        skeys == IF sd.none \/ DOMAIN sd.items = {} THEN {}
                 ELSE {k \in DOMAIN sd.items : first(sd.items[k]) \/ second(sd.items[k])}
        mkeys == {k \in DOMAIN e.metadata.items : IsSimple(e.metadata.items[k])}
        svalue(k) == LET v == sd.items[k]
                     IN IF first(v) THEN v
                        ELSE Text(SubSeq(v.l, 1, IF Len(v.l) < MetaLimit
                                                   THEN Len(v.l) ELSE MetaLimit))
    IN [fk \in {"timestamp", "source"}
               \cup {"struct_" \o k : k \in skeys}
               \cup {"meta_" \o k : k \in mkeys} |->
          IF fk = "timestamp" THEN Str(e.timestamp)
          ELSE IF fk = "source" THEN Str(e.source)
          ELSE IF \E k \in skeys : fk = "struct_" \o k
            THEN svalue(CHOOSE k \in skeys : fk = "struct_" \o k)
          ELSE e.metadata.items[CHOOSE k \in mkeys : fk = "meta_" \o k]]

\* the values a field of a log line's JSON object (or of the custom
\* metadata) can have
FieldValues ==
    {Text(Txt(n)) : n \in {0, 5, MetaLimit, MetaLimit + 1, MetaLimit + LongTextExcess}}
    \cup {Num(7), Num(-150), Bool(TRUE), Bool(FALSE), Null,
          List(<<Txt(2)>>), List(<<>>), Object}

StructKeys == {"level", "nested"}
MetaKeys == {"team"}

\* the dicts with keys among ks
Dicts(ks) == UNION {[sub -> FieldValues] : sub \in SUBSET ks}

\* a LogEntry as to_chroma_metadata sees it
MetadataEntries ==
    {[timestamp |-> "2024-01-01T12:00:00", source |-> "manual",
      structured_data |-> sd, metadata |-> Dict(md)] :
        sd \in {None} \cup {Dict(items) : items \in Dicts(StructKeys)},
        md \in Dicts(MetaKeys)}

\* a LogEntry was built and entry.to_chroma_metadata() is about to run
InitMetadata ==
    /\ Construct("LogAnalyzer", FALSE, FALSE, "medium", "ok")
    /\ collection = <<>>
    /\ pc = "idle"
    /\ \E e \in MetadataEntries : call = [op |-> "to_chroma_metadata", entry |-> e]
    /\ similar_logs = <<>>
    /\ response = None
    /\ recommendation = None
    /\ result = None
    /\ trace = <<>>
    /\ lastSearch = NoSearch
    /\ stale = FALSE
    /\ entries = <<>>
    /\ reembedded = {}
    /\ recent = NoRecent

\* entry.to_chroma_metadata()
ToChromaMetadataCall ==
    /\ pc = "idle"
    /\ call.op = "to_chroma_metadata"
    /\ result' = [none |-> FALSE, metadata |-> ToChromaMetadata(call.entry)]
    /\ pc' = "done"
    /\ UNCHANGED <<configVars, storeVars, entryVars, recent, call, similar_logs,
                   response, recommendation, trace, lastSearch>>

NextMetadata == ToChromaMetadataCall

SpecMetadata == InitMetadata /\ [][NextMetadata]_vars

(*************************** LogEmbeddings.parse_logs on text **************)
Newline == 10
\* the characters str.strip() removes, among those of the model
Whitespace == {9, 10, 13, 32}
IsSpace(c) == c \in Whitespace

\* the least and the greatest of a non-empty set of integers
Least(S) == CHOOSE x \in S : \A y \in S : x <= y
Greatest(S) == CHOOSE x \in S : \A y \in S : x >= y

\* str.strip()
Strip(t) ==
    LET solid == {i \in DOMAIN t : ~IsSpace(t[i])}
    IN IF solid = {} THEN <<>> ELSE SubSeq(t, Least(solid), Greatest(solid))

RECURSIVE Split(_)
\* str.split('\n')
Split(t) ==
    LET nl == {i \in DOMAIN t : t[i] = Newline}
    IN IF nl = {} THEN <<t>>
       ELSE <<SubSeq(t, 1, Least(nl) - 1)>> \o Split(SubSeq(t, Least(nl) + 1, Len(t)))

\* LogEntry(raw_log=line, source=source), the fields parse_logs decides
NewLogEntry(line, source) == [raw_log |-> Strip(line), source |-> source]

\* mutant: the test that skips empty lines is missing
ParseLogs_KeepBlank(log_data, source) ==
    LET lines == Split(Strip(log_data))
    IN [i \in DOMAIN lines |-> NewLogEntry(lines[i], source)]

\* LogEmbeddings.parse_logs: lines = log_data.strip().split('\n'), one
\* LogEntry per line with a non-empty line.strip()
ParseLogs(log_data, source) ==
    LET lines == Split(Strip(log_data))
        kept == SelectSeq(lines, LAMBDA line : Strip(line) # <<>>)
    IN [i \in DOMAIN kept |-> NewLogEntry(kept[i], source)]

\* the characters of the log data: newline, space, carriage return, a, b
LogChars == {10, 32, 13, 97, 98}

\* the log data of at most MaxLogLen characters
LogTexts == UNION {[1..n -> LogChars] : n \in 0..MaxLogLen}

\* a caller is about to run parse_logs(log_data)
InitParseLogs ==
    /\ Construct("LogAnalyzer", FALSE, FALSE, "medium", "ok")
    /\ collection = <<>>
    /\ pc = "idle"
    /\ \E t \in LogTexts : call = [op |-> "parse_logs", log_data |-> t]
    /\ similar_logs = <<>>
    /\ response = None
    /\ recommendation = None
    /\ result = None
    /\ trace = <<>>
    /\ lastSearch = NoSearch
    /\ stale = FALSE
    /\ entries = <<>>
    /\ reembedded = {}
    /\ recent = NoRecent

\* parse_logs(log_data) with the default source
ParseLogsText ==
    /\ pc = "idle"
    /\ call.op = "parse_logs"
    /\ result' = [none |-> FALSE, log_entries |-> ParseLogs(call.log_data, "manual")]
    /\ pc' = "done"
    /\ UNCHANGED <<configVars, storeVars, entryVars, recent, call, similar_logs,
                   response, recommendation, trace, lastSearch>>

NextParseLogs == ParseLogsText

SpecParseLogs == InitParseLogs /\ [][NextParseLogs]_vars

(*************************** LogEntry.__init__ *****************************)
\* a dict built from key-value pairs in order: items as in Dict (the last
\* value given for a key stays), order the keys by their first insertion
OrderedDict(pairs) ==
    LET firsts == {i \in DOMAIN pairs : \A j \in 1..(i - 1) : pairs[j].key # pairs[i].key}
        nth(n) == CHOOSE i \in firsts : Cardinality({j \in firsts : j < i}) = n - 1
    IN [none |-> FALSE,
        items |-> [k \in {pairs[i].key : i \in DOMAIN pairs} |->
                     pairs[Greatest({i \in DOMAIN pairs : pairs[i].key = k})].value],
        order |-> [n \in 1..Cardinality(firsts) |-> pairs[nth(n)].key]]

\* str(number) for the numbers of the model (hundredths)
NumStr(n) ==
    CASE n = 700 -> "7"
      [] n = 50 -> "0.5"
      [] n = -150 -> "-1.5"
      [] OTHER -> "<number>"

\* the text of a JSON value and of a JSON object, as the log line spells it
JsonValueText(v) ==
    CASE v.t = "str" -> "\"" \o v.s \o "\""
      [] v.t = "num" -> NumStr(v.n)
      [] v.t = "bool" -> IF v.n = 100 THEN "true" ELSE "false"
      [] v.t = "null" -> "null"
      [] v.t = "list" -> "[]"
      [] OTHER -> "{}"

RECURSIVE JsonPairsText(_)
JsonPairsText(pairs) ==
    IF pairs = <<>> THEN ""
    ELSE "\"" \o Head(pairs).key \o "\": " \o JsonValueText(Head(pairs).value)
         \o (IF Len(pairs) > 1 THEN ", " ELSE "") \o JsonPairsText(Tail(pairs))

\* a raw line with what the libraries make of it: brace says the line starts
\* with '{', json is the outcome of json.loads on it, syslog the outcome of
\* re.match(syslog_pattern, ...)
JsonLine(pairs) ==
    [text |-> "{" \o JsonPairsText(pairs) \o "}", brace |-> TRUE,
     json |-> [kind |-> "object", pairs |-> pairs],
     syslog |-> [matched |-> FALSE, groups |-> <<>>]]

BrokenJsonLine ==
    [text |-> "{\"level\": ", brace |-> TRUE,
     json |-> [kind |-> "invalid", pairs |-> <<>>],
     syslog |-> [matched |-> FALSE, groups |-> <<>>]]

SyslogLine ==
    [text |-> "Jan 12 10:15:01 web01 sshd[311]: Failed password for root", brace |-> FALSE,
     json |-> [kind |-> "invalid", pairs |-> <<>>],
     syslog |-> [matched |-> TRUE,
                 groups |-> <<"Jan 12 10:15:01", "web01", "sshd[311]",
                              "Failed password for root">>]]

PlainLine ==
    [text |-> "disk usage at 91 percent", brace |-> FALSE,
     json |-> [kind |-> "invalid", pairs |-> <<>>],
     syslog |-> [matched |-> FALSE, groups |-> <<>>]]

\* LogEntry._parse_structured_content
ParseStructuredContent(line) ==
    IF line.brace /\ line.json.kind = "object"
      THEN OrderedDict(line.json.pairs)
    ELSE IF line.syslog.matched
      THEN OrderedDict(<<[key |-> "timestamp", value |-> Str(line.syslog.groups[1])],
                         [key |-> "hostname", value |-> Str(line.syslog.groups[2])],
                         [key |-> "service", value |-> Str(line.syslog.groups[3])],
                         [key |-> "message", value |-> Str(line.syslog.groups[4])]>>)
    ELSE None

\* isinstance(value, (str, int, float)): a bool is an int
IsStrIntFloat(v) == v.t \in {"str", "num", "bool"}

\* f"{value}" for a str, an int, a float or a bool
FormatValue(v) ==
    CASE v.t = "str" -> v.s
      [] v.t = "bool" -> IF v.n = 100 THEN "True" ELSE "False"
      [] OTHER -> NumStr(v.n)

RECURSIVE Join(_, _)
\* sep.join(parts)
Join(sep, parts) ==
    IF parts = <<>> THEN ""
    ELSE IF Len(parts) = 1 THEN parts[1]
    ELSE parts[1] \o sep \o Join(sep, Tail(parts))

\* the parts the loop over structured_data.items() appends
StructuredParts(sd) ==
    IF sd.none \/ sd.order = <<>> THEN <<>>
    ELSE LET kept == SelectSeq(sd.order, LAMBDA k : IsStrIntFloat(sd.items[k]))
         IN [i \in DOMAIN kept |-> kept[i] \o ": " \o FormatValue(sd.items[kept[i]])]

\* mutant: the timestamp of the entry is part of the text
CreateSearchableText_WithTimestamp(raw_log, sd, source, timestamp) ==
    Join(" | ", <<raw_log>> \o StructuredParts(sd)
                \o <<"source: " \o source, "timestamp: " \o timestamp>>)

\* LogEntry._create_searchable_text
CreateSearchableText(raw_log, sd, source, timestamp) ==
    Join(" | ", <<raw_log>> \o StructuredParts(sd) \o <<"source: " \o source>>)

\* LogEntry(raw_log=line, source=source): id is the uuid4 drawn, timestamp
\* the clock's reading; the text of the line is already stripped
LogEntryInit(line, source, id, timestamp) ==
    LET sd == ParseStructuredContent(line)
    IN [id |-> id, raw_log |-> line.text, timestamp |-> timestamp,
        source |-> source, metadata |-> Dict([k \in {} |-> Null]),
        structured_data |-> sd,
        searchable_text |-> CreateSearchableText(line.text, sd, source, timestamp)]

\* the values of a field of a JSON log line
LineValues == {Str("ERROR"), Str(""), Num(700), Num(-150), Num(50), Bool(TRUE),
               Null, List(<<>>), Object}

LinePairs ==
    {<<>>}
    \cup {<<[key |-> k, value |-> v]>> : k \in StructKeys, v \in LineValues}
    \cup {<<[key |-> k, value |-> v], [key |-> l, value |-> w]>> :
            k \in StructKeys, l \in StructKeys, v \in LineValues, w \in LineValues}

RawLines == {PlainLine, SyslogLine, BrokenJsonLine} \cup {JsonLine(ps) : ps \in LinePairs}

Sources == {"manual", "app.log"}
Uuids == {"uuid-1", "uuid-2", "uuid-3"}
Timestamps == {"2024-01-01T12:00:00", "2024-01-01T12:00:07"}

\* two LogEntry objects are about to be built from the same line and source
InitLogEntry ==
    /\ Construct("LogAnalyzer", FALSE, FALSE, "medium", "ok")
    /\ collection = <<>>
    /\ pc = "idle"
    /\ \E line \in RawLines, source \in Sources :
          call = [op |-> "LogEntry", line |-> line, source |-> source]
    /\ similar_logs = <<>>
    /\ response = None
    /\ recommendation = None
    /\ result = None
    /\ trace = <<>>
    /\ lastSearch = NoSearch
    /\ stale = FALSE
    /\ entries = <<>>
    /\ reembedded = {}
    /\ recent = NoRecent

\* LogEntry(line, source=source) twice: the ids are two draws of uuid4, the
\* timestamps two readings of the clock
NewLogEntries(id1, id2, t1, t2) ==
    /\ pc = "idle"
    /\ call.op = "LogEntry"
    /\ id1 # id2
    /\ result' = [none |-> FALSE,
                  first |-> LogEntryInit(call.line, call.source, id1, t1),
                  second |-> LogEntryInit(call.line, call.source, id2, t2)]
    /\ pc' = "done"
    /\ UNCHANGED <<configVars, storeVars, entryVars, recent, call, similar_logs,
                   response, recommendation, trace, lastSearch>>

NextLogEntry ==
    \E id1 \in Uuids, id2 \in Uuids, t1 \in Timestamps, t2 \in Timestamps :
        NewLogEntries(id1, id2, t1, t2)

SpecLogEntry == InitLogEntry /\ [][NextLogEntry]_vars

(*************************** properties *************************************)
\* the call (LogAnalyzer.analyze_logs, and its wrapper when there is one) has returned
Returned == call.op = "analyze_logs" /\ pc = "done"
\* LogAnalyzer.analyze_logs itself has returned
CoreReturned == call.op = "analyze_logs" /\ pc \in {"wrapper_gate", "wrapper_send", "done"}

\* the decision rule of the alert gate as the specification words it
GateRule(rec) ==
    /\ rec.confidence >= 50
    /\ \/ rec.severity \in {"high", "critical"}
       \/ rec.severity = "medium" /\ rec.category = "security"

\* C1: with a notifier present and enabled (and, for SlackEnabledAnalyzer,
\* slack_enabled true), every verdict of _should_send_slack_alert is true
\* exactly when confidence >= 0.5 and (severity is high or critical, or
\* severity is medium and category is security).
C1_GateExact ==
    /\ \A i \in Events("gate", "core") :
          (slack_notifier.present /\ slack_notifier.enabled)
             => (trace[i].ok <=> GateRule(trace[i].rec))
    /\ \A i \in Events("gate", "wrapper") :
          (w_slack_enabled /\ w_notifier.present /\ w_notifier.enabled)
             => (trace[i].ok <=> GateRule(trace[i].rec))

\* C2: in a run of LogAnalyzer.analyze_logs, send_security_alert is invoked
\* only right after the gate returned true for the recommendation parsed in
\* this call, and with that recommendation; when the gate returned false or
\* send_slack_alert is false, the notifier is not invoked in this call.
C2_SendOnlyAfterGate ==
    call.op = "analyze_logs" =>
      /\ \A i \in Events("send", "core") :
            /\ call.send_slack_alert
            /\ i > 1
            /\ trace[i - 1] = Event("gate", "core", trace[i].rec, TRUE)
            /\ \E j \in 1..(i - 1) : trace[j] = Event("parse", "core", trace[i].rec, TRUE)
            /\ trace[i].rec = recommendation
      /\ (\/ ~call.send_slack_alert
          \/ \E j \in Events("gate", "core") : ~trace[j].ok)
            => (Events("send", "core") = {} /\ Events("post", "core") = {})

\* C2 witness: LogAnalyzer.analyze_logs returned after handing the
\* recommendation to the notifier.
C2_Witness ==
    /\ Returned
    /\ mode = "LogAnalyzer"
    /\ Events("send", "core") # {}
    /\ result = recommendation

\* C3: a response json.loads rejects parses to the fallback record: severity
\* low, confidence 0.1, category unknown, no affected systems, timeline
\* medium-term, and one log_evidence entry: the text itself when it has at
\* most 200 characters, else its first 200 characters followed by "...".
C3_FallbackRecord ==
    \A i \in Events("parse", "core") :
        response.json.kind = "invalid" =>
          /\ trace[i].ok
          /\ recommendation = trace[i].rec
          /\ recommendation.severity = "low"
          /\ recommendation.confidence = 10
          /\ recommendation.category = "unknown"
          /\ recommendation.affected_systems = <<>>
          /\ recommendation.timeline = "medium-term"
          /\ Len(recommendation.log_evidence) = 1
          /\ LET text == response.text
                 entry == recommendation.log_evidence[1]
             IN IF Len(text) <= 200
                  THEN entry = text
                  ELSE /\ Len(entry) = 203
                       /\ \A k \in 1..200 : entry[k] = text[k]
                       /\ \A k \in 201..203 : entry[k] = 46

\* C3 witness: a 300-character text json.loads rejects was parsed, and the
\* evidence entry has 203 characters.
C3_Witness ==
    /\ Events("parse", "core") # {}
    /\ response.json.kind = "invalid"
    /\ Len(response.text) = 300
    /\ Len(recommendation.log_evidence[1]) = 203

\* the values the data model allows
InRange(rec) ==
    /\ rec.severity \in {"low", "medium", "high", "critical"}
    /\ rec.category \in {"security", "performance", "availability", "compliance",
                         "configuration", "unknown"}
    /\ rec.timeline \in {"immediate", "short-term", "medium-term", "long-term"}
    /\ rec.confidence >= 0 /\ rec.confidence <= 100

\* the generation capability answered in this call
Generated == \E i \in Events("llm", "core") : trace[i].ok

\* C4: for every answer of the generation capability, parse returns a
\* complete SecurityRecommendation and never raises; hence analyze_logs with
\* a non-empty retrieval and a successful generation never returns None.
C4_ParseNeverRaises ==
    /\ \A i \in Events("parse", "core") : trace[i].ok /\ trace[i].rec # None
    /\ (CoreReturned /\ similar_logs # <<>> /\ Generated) => result # None

\* C5: every recommendation parse or analyze_logs returns has severity,
\* category and timeline among the enumerated values and confidence within
\* [0,1].
C5_FieldsInRange ==
    /\ \A i \in Events("parse", "core") : trace[i].ok => InRange(trace[i].rec)
    /\ (CoreReturned /\ result # None) => InRange(result)

\* a confidence value that is missing or no number
NonNumeric(v) ==
    \/ v.t \in {"missing", "null", "list", "object"}
    \/ v.t = "str" /\ v.s \notin DOMAIN NumericStrings

\* C6: when the answer is a JSON object whose confidence is missing or
\* non-numeric, parse returns a recommendation with confidence 0.5 whose
\* other fields come from the object, not the fallback record.
C6_ConfidenceDefault ==
    \A i \in Events("parse", "core") :
        (response.json.kind = "object" /\ NonNumeric(response.json.obj["confidence"]))
          => /\ trace[i].ok
             /\ trace[i].rec # None
             /\ trace[i].rec.confidence = 50
             /\ trace[i].rec.issue = Get(response.json.obj, "issue", Str("Unknown issue"))
             /\ trace[i].rec.severity =
                  Lower(PyStr(Get(response.json.obj, "severity", Str("medium"))))

\* C7: when retrieval returns no hits, analyze_logs returns None and neither
\* the generation capability nor the Slack notifier is invoked in that call.
C7_EmptyRetrieval ==
    (/\ call.op = "analyze_logs"
     /\ \E i \in Events("search", "core") : ~trace[i].ok)
      => /\ \A i \in DOMAIN trace : trace[i].ev \notin {"llm", "parse", "gate", "send", "post"}
         /\ similar_logs = <<>>
         /\ pc \notin {"generate", "parse", "gate", "send", "wrapper_send"}
         /\ result = None

\* C7 witness: a call returned after a retrieval without hits, with a
\* notifier that is enabled.
C7_Witness ==
    /\ Returned
    /\ slack_notifier.present /\ slack_notifier.enabled
    /\ call.send_slack_alert
    /\ \E i \in Events("search", "core") : ~trace[i].ok
    /\ result = None

\* C8: with a non-empty retrieval the generation capability is invoked
\* exactly once; when it fails it is not retried and the call ends without a
\* recommendation.
C8_GenerateOnce ==
    (call.op = "analyze_logs" /\ similar_logs # <<>>) =>
      /\ Cardinality(Events("llm", "core")) <= 1
      /\ pc \notin {"search", "generate"} => Cardinality(Events("llm", "core")) = 1
      /\ \A i \in Events("llm", "core") :
            ~trace[i].ok => /\ i = Len(trace)
                            /\ CoreReturned
                            /\ recommendation = None
                            /\ result = None

\* C8 witness: the call returned after the generation capability failed.
C8_Witness ==
    /\ Returned
    /\ similar_logs # <<>>
    /\ \E i \in Events("llm", "core") : ~trace[i].ok
    /\ result = None

\* C9: search_similar_logs(text, k) with k >= 1 on an empty collection
\* returns an empty sequence and raises nothing, whatever the query.
C9_EmptyStore ==
    (lastSearch.count = 0 /\ lastSearch.n_results >= 1)
      => (lastSearch.out.hits = <<>> /\ ~lastSearch.out.raised)

\* C9 witness: a direct search with k = 5 on the empty collection, the
\* collaborators working, returned the empty sequence.
C9_Witness ==
    /\ call.op = "search_similar_logs"
    /\ collection = <<>>
    /\ lastSearch.count = 0
    /\ lastSearch.n_results = 5
    /\ ~lastSearch.out.failed
    /\ lastSearch.out.store_invoked
    /\ lastSearch.out.hits = <<>>

\* C10: when the embedding capability or the vector store fails during
\* search_similar_logs, the caller gets an outcome it can tell from the
\* empty result of a query that matched nothing.
C10_FailureDistinguishable ==
    lastSearch.out.failed => (lastSearch.out.raised \/ lastSearch.out.hits # <<>>)

\* C11: a search_similar_logs(text, k) with k <= 0 returns the empty
\* sequence and does not invoke the query operation of the vector store.
C11_NoStoreCallForNonPositiveK ==
    (call.op = "search_similar_logs" /\ lastSearch.n_results <= 0)
        => (lastSearch.out.hits = <<>> /\ ~lastSearch.out.store_invoked)

\* C16: every hit of search_similar_logs has similarity_score equal to 1
\* minus the distance the store reported for it, that score lies in [0, 1],
\* and of two hits the one with the smaller distance never has the lower
\* similarity_score.
C16_SimilarityInUnitInterval ==
    LET hits == lastSearch.out.hits
        dist(i) == Distance(EmbedVec(lastSearch.query), EmbedVec(hits[i].document))
    IN \A i \in DOMAIN hits :
          /\ hits[i].similarity_score = 100 - dist(i)
          /\ hits[i].similarity_score >= 0
          /\ hits[i].similarity_score <= 100
          /\ \A j \in DOMAIN hits :
                dist(i) < dist(j) => hits[i].similarity_score >= hits[j].similarity_score

C13_StoredVectorsImmutable ==
    [][/\ \A i \in DOMAIN collection' :
             collection'[i].document = entries'[collection'[i].id].searchable_text
       /\ call'.op # "clear_collection" =>
             /\ Len(collection') >= Len(collection)
             /\ \A i \in DOMAIN collection :
                   \E j \in DOMAIN collection' :
                      /\ collection'[j].id = collection[i].id
                      /\ collection'[j].document = collection[i].document
                      /\ collection'[j].metadata = collection[i].metadata]_vars

\* C13 witness: embed_logs was called again with an entry that is already
\* stored, together with a new one, and both are stored.
C13_Witness ==
    /\ call.op = "embed_logs"
    /\ result.ok
    /\ reembedded # {}
    /\ Len(collection) = 2

\* C14: after clear_collection returns the collection holds no vectors:
\* get_collection_stats reports total_logs 0 and search_similar_logs returns
\* the empty list.
C14_EmptyAfterClear ==
    call.op = "clear_collection" =>
        /\ collection = <<>>
        /\ LET stats == GetCollectionStatsResult(collection, StoreOutcome("ok"))
           IN "total_logs" \in stats.keys /\ stats.total_logs = 0
        /\ \A q \in Topics :
              SearchSimilarLogs(collection, q, analysis_chunk_size,
                                StoreOutcome("ok")).hits = <<>>

\* C15: no two stored vectors share an id, and a LogEntry that is already
\* stored is not handed to the embedding capability again when embed_logs is
\* called with it a second time.
C15_NoDuplicateNoReembed ==
    /\ \A i, j \in DOMAIN collection :
          collection[i].id = collection[j].id => i = j
    /\ reembedded = {}

RECURSIVE AboveThreshold(_)
\* of the outcomes of the queries, the recommendations of confidence
\* strictly above 0.3, in the order of the queries
AboveThreshold(outcomes) ==
    IF outcomes = <<>> THEN <<>>
    ELSE (IF Head(outcomes) # None /\ Head(outcomes).confidence > 30
            THEN <<Head(outcomes)>> ELSE <<>>)
         \o AboveThreshold(Tail(outcomes))

\* C17: analyze_recent_logs returns exactly the recommendations of its
\* queries whose analysis produced a recommendation of confidence strictly
\* above 0.3, in the order of the queries; a query whose analysis returned
\* None or a confidence of at most 0.3 contributes nothing.
C17_RecentAboveThreshold ==
    (call.op = "analyze_recent_logs" /\ pc = "done") =>
        /\ Len(recent.returned) = Len(CommonQueries)
        /\ result.recommendations = AboveThreshold(recent.returned)

\* C17 witness: the analyses returned None, a confidence of exactly 0.3 and
\* a confidence above 0.3, and the list returned is shorter than the list of
\* queries but not empty.
C17_Witness ==
    /\ call.op = "analyze_recent_logs" /\ pc = "done"
    /\ \E i \in DOMAIN recent.returned : recent.returned[i] = None
    /\ \E i \in DOMAIN recent.returned :
          recent.returned[i] # None /\ recent.returned[i].confidence = 30
    /\ \E i \in DOMAIN result.recommendations :
          result.recommendations[i].confidence = 31

\* the call of to_chroma_metadata has returned
MetadataReturned == call.op = "to_chroma_metadata" /\ pc = "done"

\* a string, a number or a boolean
Scalar(v) == v.t \in {"str", "num", "bool"}

C19_StructStringsTruncated ==
    MetadataReturned =>
        LET e == call.entry
            m == result.metadata
        IN ~e.structured_data.none =>
              \A k \in DOMAIN e.structured_data.items :
                 LET v == e.structured_data.items[k]
                 IN v.t = "str" =>
                       /\ ("struct_" \o k) \in DOMAIN m
                       /\ Len(m["struct_" \o k].l) <= 100
                       /\ (Len(v.l) > 100 =>
                              m["struct_" \o k] = Text(SubSeq(v.l, 1, 100)))

\* the lines of a text: what lies between its newlines, in order
LinesOf(t) ==
    LET cut == {0, Len(t) + 1} \cup {i \in DOMAIN t : t[i] = 10}
        start(k) == CHOOSE c \in cut : Cardinality({d \in cut : d < c}) = k - 1
        stop(k) == CHOOSE c \in cut : Cardinality({d \in cut : d < c}) = k
    IN [k \in 1..(Cardinality(cut) - 1) |-> SubSeq(t, start(k) + 1, stop(k) - 1)]

\* the line consists of whitespace only
Blank(line) == \A i \in DOMAIN line : line[i] \in {9, 10, 13, 32}

\* r is the line without its leading and trailing whitespace
TrimmedTo(line, r) ==
    \E i \in 1..(Len(line) + 1), j \in 0..Len(line) :
        /\ r = SubSeq(line, i, j)
        /\ Blank(SubSeq(line, 1, i - 1))
        /\ Blank(SubSeq(line, j + 1, Len(line)))
        /\ r # <<>> => (~Blank(<<r[1]>>) /\ ~Blank(<<r[Len(r)]>>))

\* C20: parse_logs returns one LogEntry per line of the input that is not
\* blank or whitespace-only, in the order of the lines, each with raw_log
\* equal to the line without its surrounding whitespace; a blank line gets
\* no entry.
C20_OneEntryPerLine ==
    (call.op = "parse_logs" /\ pc = "done" /\ "log_data" \in DOMAIN call) =>
        LET lines == LinesOf(call.log_data)
            solid == SelectSeq(lines, LAMBDA l : ~Blank(l))
            out == result.log_entries
        IN /\ Len(out) = Len(solid)
           /\ \A i \in DOMAIN out :
                 /\ out[i].raw_log # <<>>
                 /\ TrimmedTo(solid[i], out[i].raw_log)

\* C20 witness: three lines, the middle one empty and the first with a space
\* before its text; two entries come back, "a" then "b".
C20_Witness ==
    /\ call.op = "parse_logs" /\ pc = "done" /\ "log_data" \in DOMAIN call
    /\ call.log_data = <<32, 97, 10, 10, 98>>
    /\ Len(result.log_entries) = 2
    /\ result.log_entries[1].raw_log = <<97>>
    /\ result.log_entries[2].raw_log = <<98>>

RECURSIVE FieldsText(_, _)
\* " | key: value" for each scalar field of the keys, in their order
FieldsText(keys, items) ==
    IF keys = <<>> THEN ""
    ELSE (IF Scalar(items[Head(keys)])
            THEN " | " \o Head(keys) \o ": " \o FormatValue(items[Head(keys)])
            ELSE "")
         \o FieldsText(Tail(keys), items)

\* C21: two LogEntry objects created from the same raw line and the same
\* source have the same searchable_text, whatever their ids and timestamps,
\* and it is the ' | ' join of raw_log, then 'key: value' for each scalar
\* structured field in field order, then 'source: <source>'.
C21_SearchableTextDeterministic ==
    (call.op = "LogEntry" /\ pc = "done") =>
        LET a == result.first
            b == result.second
            fields == IF a.structured_data.none THEN ""
                      ELSE FieldsText(a.structured_data.order, a.structured_data.items)
        IN /\ a.searchable_text = b.searchable_text
           /\ a.searchable_text = a.raw_log \o fields \o " | source: " \o a.source

\* C21 witness: two entries with different ids and timestamps, built from a
\* JSON line with a string field and a nested object, have the same text.
C21_Witness ==
    /\ call.op = "LogEntry" /\ pc = "done"
    /\ result.first.id # result.second.id
    /\ result.first.timestamp # result.second.timestamp
    /\ call.line = JsonLine(<<[key |-> "level", value |-> Str("ERROR")],
                              [key |-> "nested", value |-> Object]>>)
    /\ result.second.searchable_text =
          "{\"level\": \"ERROR\", \"nested\": {}} | level: ERROR | source: manual"

\* C22: while a LogAnalyzer's slack_enabled is false (after
\* set_slack_enabled(False) and before set_slack_enabled(True)), no
\* analyze_logs or analyze_recent_logs call on it delivers a Slack alert,
\* whatever the recommendation.
C22_SwitchedOffIsSilent ==
    (mode = "LogAnalyzer" /\ ~slack_enabled
        /\ call.op \in {"analyze_logs", "analyze_recent_logs"})
        => Events("post", "core") = {}

\* C23: a SlackEnabledAnalyzer.analyze_logs call delivers no Slack alert
\* when the wrapper was created with enable_slack=False or switched off with
\* set_slack_enabled(False), and none when the call was made with
\* send_slack_alert=False.
C23_WrapperOffIsSilent ==
    (mode = "SlackEnabledAnalyzer" /\ call.op = "analyze_logs"
        /\ (~w_slack_enabled \/ ~call.w_send))
        => (Events("post", "core") = {} /\ Events("post", "wrapper") = {})

\* C27: one call of SlackEnabledAnalyzer.analyze_logs delivers at most one
\* Slack alert for the recommendation it returns: the wrapped LogAnalyzer
\* and the wrapper never both notify.
C27_AtMostOneAlert ==
    (mode = "SlackEnabledAnalyzer" /\ call.op = "analyze_logs")
        => Cardinality(Events("post", "core") \cup Events("post", "wrapper")) <= 1

\* the ordinal of a severity: critical=4 > high=3 > medium=2 > low=1 > info=0
Ordinal == [critical |-> 4, high |-> 3, medium |-> 2, low |-> 1, info |-> 0]
\* the ordinal of min_severity, an unrecognised value counting as medium
MinOrdinal(min_severity) ==
    IF min_severity \in DOMAIN Ordinal THEN Ordinal[min_severity] ELSE Ordinal["medium"]

\* C24: _send_alert performs an HTTP post exactly when the notifier is
\* enabled and the ordinal of the alert's severity is at least the ordinal
\* of min_severity, and returns True exactly when that post was made and
\* answered with status 200.
C24_PostExactlyAboveThreshold ==
    (pc = "done" /\ call.op = "notifier" /\ result.op = "_send_alert") =>
        /\ result.posted <=>
              (slack_notifier.enabled
                  /\ Ordinal[call.alert.severity] >= MinOrdinal(slack_notifier.min_severity))
        /\ result.ok <=> (result.posted /\ result.http = "200")

\* C25: with the webhook configured, SLACK_MIN_SEVERITY at its default
\* "medium" and Slack answering 200, send_test_message posts the test
\* message and returns True.
C25_TestMessagePosted ==
    (pc = "done" /\ call.op = "notifier" /\ result.op = "send_test_message"
        /\ slack_notifier.enabled /\ slack_notifier.min_severity = "medium"
        /\ result.http = "200")
        => (result.posted /\ result.ok)

\* C26: when analyze_recent_logs ran with send_slack_alerts true, an enabled
\* notifier and a non-empty list of returned recommendations, a summary
\* report was delivered to the notifier.
C26_SummaryDelivered ==
    (call.op = "analyze_recent_logs" /\ pc = "done"
        /\ call.send_slack_alert
        /\ slack_notifier.present /\ slack_notifier.enabled
        /\ result.recommendations # <<>>)
        => \E i \in Events("summary", "core") : trace[i].ok

\* C29: in analyze_recent_logs, every recommendation for which an
\* individual Slack alert was sent during the run is contained in the list
\* the call returns.
C29_AlertedAreReturned ==
    (call.op = "analyze_recent_logs" /\ pc = "done") =>
        \A i \in DOMAIN recent.alerted :
            \E j \in DOMAIN result.recommendations :
                result.recommendations[j] = recent.alerted[i]

\* C28: whenever send_security_alert is reached through the gate of
\* LogAnalyzer.analyze_logs, the recommendation's severity is medium, high
\* or critical; so the conversion to AlertSeverity does not fail, and with
\* the default min_severity "medium" the severity meets the notifier's
\* threshold.
C28_GatedSeverityAccepted ==
    call.op = "analyze_logs" =>
        \A i \in Events("send", "core") :
            /\ trace[i].rec.severity \in {"medium", "high", "critical"}
            /\ trace[i].rec.severity \in DOMAIN Ordinal
            /\ slack_notifier.min_severity = "medium"
                  => Ordinal[trace[i].rec.severity] >= MinOrdinal(slack_notifier.min_severity)

\* C28 witness: the gate approved a medium security finding, the least
\* severity it lets through, and the notifier posted it.
C28_Witness ==
    /\ call.op = "analyze_logs"
    /\ slack_notifier.min_severity = "medium"
    /\ \E i \in Events("send", "core") : trace[i].rec.severity = "medium"
    /\ \E i \in Events("post", "core") : trace[i].rec.severity = "medium"

\* a step of the running analyze_logs failed: the retrieval found nothing
\* or failed, the generation failed, or parse raised
StepFailed ==
    \E i \in Events("search", "core") \cup Events("llm", "core") \cup Events("parse", "core") :
        ~trace[i].ok

\* C30: LogAnalyzer.analyze_logs always returns: with None when retrieval,
\* prompt rendering, generation or parsing failed, and otherwise with the
\* parsed recommendation, whatever the Slack delivery did (the same result
\* as with send_slack_alert=False).
C30_FailuresEndWithNone ==
    CoreReturned =>
        /\ StepFailed => result = None
        /\ ~StepFailed =>
              /\ result # None
              /\ \E i \in Events("parse", "core") : trace[i].ok /\ result = trace[i].rec

\* C30 witness: LogAnalyzer.analyze_logs returned the recommendation after
\* the delivery of its alert had failed.
C30_Witness ==
    /\ Returned
    /\ mode = "LogAnalyzer"
    /\ \E i \in Events("post", "core") : ~trace[i].ok
    /\ result # None
    /\ result = recommendation
====
